---- MODULE Spec2Model ----
(***************************************************************************)
(* Model of AutoElevDoorPlugin (src/src/plugins/auto_elev_door_plugin.cc): *)
(* a Gazebo model plugin that slides an elevator door open and closed.     *)
(*                                                                         *)
(* Numbers.  float and double quantities are modelled by integers on a     *)
(* grid, rounding to single precision being below the grid's resolution:   *)
(*   - heights (Z) in units of 0.5 m, so HEIGHT_LEVEL_TOLERANCE 1.5 is 3;  *)
(*   - planar lengths (X, Y) in units such that DEFAULT_SLIDE_DISTANCE     *)
(*     0.711305 is 2, one physics step lasting the time in which           *)
(*     DEFAULT_SLIDE_SPEED (1 m/s) covers one planar unit;                 *)
(*   - quaternion components in units of 1/QOne.                           *)
(* max_trans_dist is a distance and slide_speed a speed: the model draws   *)
(* both from the positive numbers.                                         *)
(*                                                                         *)
(* One world iteration is: the WorldUpdateBegin callback OnUpdate          *)
(* (spinOnce, activateDoors, checkSlideConstraints), then the physics      *)
(* update of the engine.  pc is the position in that cycle.                *)
(***************************************************************************)
EXTENDS Integers, Sequences, FiniteSets, TLC

VARIABLES
    pc,                 \* "constructed", "spin", "activate", "constrain",
                        \* "physics", "exited" (std::exit in Load), "threw"
                        \* (exception in Load), "crashed" (failed tick)
    \* ---- members of AutoElevDoorPlugin
    targetFloor, estCurrFloor, doorState, isActive,
    direction, slide_speed, max_trans_dist,
    openVel, closeVel, minPosX, maxPosX, minPosY, maxPosY,
    elevator_ref_num,
    elevatorModel,      \* TRUE: the pointer is set, FALSE: it is null
    doorLink,           \* TRUE: the pointer is set, FALSE: it is null
    \* ---- the world the physics engine owns
    doorPose,           \* [x, y, z, rot]: world pose of the door model
    doorVel,            \* <<vx, vy, vz>>: linear velocity of the door link
    elevZ,              \* height of the elevator car
    \* ---- ROS
    handled,            \* callbacks the running spinOnce has called so far
    \* ---- observation
    velCalls            \* arguments of the setDoorSlideVel calls of this tick

ctrl == <<targetFloor, estCurrFloor, doorState, isActive>>
derived == <<direction, slide_speed, max_trans_dist, openVel, closeVel,
             minPosX, maxPosX, minPosY, maxPosY, elevator_ref_num,
             elevatorModel, doorLink>>
world == <<doorPose, doorVel, elevZ>>
vars == <<pc, ctrl, derived, world, handled, velCalls>>

----------------------------------------------------------------------------
\* Program constants

HEIGHT_LEVEL_TOLERANCE == 3
ELEV_DOOR_STATE_OPEN == 1
ELEV_DOOR_STATE_CLOSE == 0
ELEV_DOOR_STATE_FREE == 2
DEFAULT_SLIDE_DISTANCE == 2
DEFAULT_SLIDE_SPEED == 1
QOne == 5

\* Bounds of the model

MaxFloor == 1       \* floors are 0..MaxFloor
MaxDist == 2        \* max_trans_dist is 1..MaxDist
MaxPending == 1     \* messages one spinOnce finds in the callback queue

Floors == 0..MaxFloor
\* std_msgs::UInt8 values: the three door commands and one that is none of them
DoorCmds == {ELEV_DOOR_STATE_CLOSE, ELEV_DOOR_STATE_OPEN, ELEV_DOOR_STATE_FREE, 3}
Speeds == {1, 2}
\* the elevator this door belongs to, and another one
ElevIds == {1, 2}
OwnElevIds == {1}
\* the door stands at height 1: the car is at the tolerance above it (4)
\* or beyond the tolerance below it (-3)
CarHeights == {-3, 4}
SpawnPoses == {[x |-> 0, y |-> 1, z |-> 1,
                rot |-> [w |-> QOne, x |-> 0, y |-> 0, z |-> 0]],
               [x |-> 3, y |-> -2, z |-> 1,
                rot |-> [w |-> 4, x |-> 0, y |-> 0, z |-> 3]]}
\* what else than its own velocity acts on the door during a physics
\* update: nothing, or a knock that shifts it by dx, dy and leaves it with
\* the vertical velocity vz
Disturbances == {[dx |-> 0, dy |-> 0, vz |-> 0], [dx |-> 1, dy |-> -1, vz |-> -1]}

ActiveArrays == {<<>>, <<2>>, <<1, 2>>, <<2, 1>>}

Messages ==
    {[topic |-> "target_floor", data |-> n, array |-> <<>>] : n \in Floors}
    \cup {[topic |-> "est_floor", data |-> n, array |-> <<>>] : n \in Floors}
    \cup {[topic |-> "door", data |-> n, array |-> <<>>] : n \in DoorCmds}
    \cup {[topic |-> "active", data |-> 0, array |-> a] : a \in ActiveArrays}

\* The plugin's configuration element; has_... tells whether the element is
\* there (door_direction: "none" when it is not).
SdfConfigs ==
    [has_elevator_name : BOOLEAN, elevator_name : OwnElevIds,
     door_direction : {"none", "left", "right"},
     has_max_trans_dist : BOOLEAN, max_trans_dist : 1..MaxDist,
     has_speed : BOOLEAN, speed : Speeds]

Abs(n) == IF n < 0 THEN -n ELSE n

----------------------------------------------------------------------------
\* State after construction: the constructor assigns no member, so the four
\* controller fields hold any value; the other members are assigned by Load
\* before anything reads them.

Init ==
    /\ pc = "constructed"
    /\ targetFloor \in Floors
    /\ estCurrFloor \in Floors
    /\ doorState \in DoorCmds
    /\ isActive \in BOOLEAN
    /\ direction = "LEFT"
    /\ slide_speed = 0
    /\ max_trans_dist = 0
    /\ openVel = 0
    /\ closeVel = 0
    /\ minPosX = 0
    /\ maxPosX = 0
    /\ minPosY = 0
    /\ maxPosY = 0
    /\ elevator_ref_num = 0
    /\ elevatorModel = FALSE
    /\ doorLink = FALSE
    /\ doorPose \in SpawnPoses
    /\ doorVel = <<0, 0, 0>>
    /\ elevZ \in CarHeights
    /\ handled = 0
    /\ velCalls = <<>>

----------------------------------------------------------------------------
\* Load

determineDoorDirection(sdf) ==
    IF sdf.door_direction = "none" THEN "LEFT"
    ELSE IF sdf.door_direction = "right" THEN "RIGHT" ELSE "LEFT"

determineMaxTransDist(sdf) ==
    IF ~sdf.has_max_trans_dist THEN DEFAULT_SLIDE_DISTANCE
    ELSE sdf.max_trans_dist

determineSlideSpeed(sdf) ==
    IF ~sdf.has_speed THEN DEFAULT_SLIDE_SPEED ELSE sdf.speed

initOpenVel(dir, speed) == IF dir = "RIGHT" THEN -speed ELSE speed
\* mutant: the closing velocity has the sign of the opening velocity
initCloseVel_sameAsOpen(dir, speed) == IF dir = "RIGHT" THEN -speed ELSE speed
initCloseVel(dir, speed) == IF dir = "RIGHT" THEN speed ELSE -speed
\* mutant: the envelope of a LEFT door is laid out like a RIGHT door's
initMinPos_ignoresDirection(dir, spawn, dist) == spawn - dist
initMinPos(dir, spawn, dist) == IF dir = "RIGHT" THEN spawn - dist ELSE spawn
initMaxPos(dir, spawn, dist) == IF dir = "RIGHT" THEN spawn ELSE spawn + dist

\* The members that Load assigns, and where the setup stands.
loadRec ==
    [pc |-> pc, direction |-> direction, slide_speed |-> slide_speed,
     max_trans_dist |-> max_trans_dist, openVel |-> openVel,
     closeVel |-> closeVel, minPosX |-> minPosX, maxPosX |-> maxPosX,
     minPosY |-> minPosY, maxPosY |-> maxPosY,
     elevator_ref_num |-> elevator_ref_num, elevatorModel |-> elevatorModel,
     doorLink |-> doorLink]

\* determineDoorDirection, determineConstraints and establishLinks
establishedRec(sdf, hasDoorLink) ==
    [loadRec EXCEPT !.direction = determineDoorDirection(sdf),
                    !.max_trans_dist = determineMaxTransDist(sdf),
                    !.slide_speed = determineSlideSpeed(sdf),
                    !.doorLink = hasDoorLink]

\* initVars on what the functions before it have set
initVars(r, sdf, hasElevModel) ==
    [r EXCEPT !.elevator_ref_num = sdf.elevator_name,
              !.openVel = initOpenVel(r.direction, r.slide_speed),
              !.closeVel = initCloseVel(r.direction, r.slide_speed),
              !.minPosX = initMinPos(r.direction, doorPose.x, r.max_trans_dist),
              !.maxPosX = initMaxPos(r.direction, doorPose.x, r.max_trans_dist),
              !.minPosY = initMinPos(r.direction, doorPose.y, r.max_trans_dist),
              !.maxPosY = initMaxPos(r.direction, doorPose.y, r.max_trans_dist),
              !.elevatorModel = hasElevModel,
              !.pc = "spin"]

\* mutant: a missing elevator_name is not fatal
loadResult_nameNotRequired(sdf, hasParam, namePrefixed, hasDoorLink, hasElevModel) ==
    IF ~hasParam
    THEN [loadRec EXCEPT !.pc = "exited"]
    ELSE IF ~namePrefixed
    THEN [establishedRec(sdf, hasDoorLink) EXCEPT !.pc = "threw"]
    ELSE initVars(establishedRec(sdf, hasDoorLink), sdf, hasElevModel)

\* Load on the configuration element sdf, in a process whose parameter
\* store has (hasParam) the elevator_domain_space or not, with an
\* elevator_name that contains that domain space (namePrefixed) or not, on
\* a model that has a link "door" or not, in a world that has a model of
\* the elevator's name or not.
\*   determineDomainSpace, determineCorresElev: std::exit when the
\*     parameter or the element is missing;
\*   determineDoorDirection, determineConstraints: the defaults;
\*   establishLinks: doorLink, the subscriptions, the update connection;
\*   initVars: replaceSubstring throws std::out_of_range when the name does
\*     not contain the domain space (find gives npos); else the reference
\*     number, the velocities, the envelope and elevatorModel are set.
loadResult(sdf, hasParam, namePrefixed, hasDoorLink, hasElevModel) ==
    IF ~hasParam \/ ~sdf.has_elevator_name
    THEN [loadRec EXCEPT !.pc = "exited"]
    ELSE IF ~namePrefixed
    THEN [establishedRec(sdf, hasDoorLink) EXCEPT !.pc = "threw"]
    ELSE initVars(establishedRec(sdf, hasDoorLink), sdf, hasElevModel)

Load ==
    /\ pc = "constructed"
    /\ \E sdf \in SdfConfigs, hasParam \in BOOLEAN, namePrefixed \in BOOLEAN,
          hasDoorLink \in BOOLEAN, hasElevModel \in BOOLEAN :
        LET r == loadResult(sdf, hasParam, namePrefixed, hasDoorLink,
                            hasElevModel)
        IN /\ pc' = r.pc
           /\ direction' = r.direction
           /\ slide_speed' = r.slide_speed
           /\ max_trans_dist' = r.max_trans_dist
           /\ openVel' = r.openVel
           /\ closeVel' = r.closeVel
           /\ minPosX' = r.minPosX
           /\ maxPosX' = r.maxPosX
           /\ minPosY' = r.minPosY
           /\ maxPosY' = r.maxPosY
           /\ elevator_ref_num' = r.elevator_ref_num
           /\ elevatorModel' = r.elevatorModel
           /\ doorLink' = r.doorLink
    /\ UNCHANGED <<ctrl, world, handled, velCalls>>

----------------------------------------------------------------------------
\* Message handlers, on the record of the four controller fields

ctrlRec == [targetFloor |-> targetFloor, estCurrFloor |-> estCurrFloor,
            doorState |-> doorState, isActive |-> isActive]

target_floor_cb(s, msg) == [s EXCEPT !.targetFloor = msg.data]

\* mutant: the estimated floor is written to the target floor
est_floor_cb_writesTarget(s, msg) == [s EXCEPT !.targetFloor = msg.data]

est_floor_cb(s, msg) == [s EXCEPT !.estCurrFloor = msg.data]

\* mutant: a value that is no known command is dropped, the previous
\* command is kept
open_close_cb_holdsPrevious(s, msg) ==
    IF msg.data \in {ELEV_DOOR_STATE_CLOSE, ELEV_DOOR_STATE_OPEN,
                     ELEV_DOOR_STATE_FREE}
    THEN [s EXCEPT !.doorState = msg.data]
    ELSE s

open_close_cb(s, msg) == [s EXCEPT !.doorState = msg.data]

\* mutant: an incremental update, the flag is never reset
active_elevs_cb_incremental(s, msg) ==
    [s EXCEPT !.isActive =
        @ \/ \E i \in 1..Len(msg.array) : msg.array[i] = elevator_ref_num]

active_elevs_cb(s, msg) ==
    [s EXCEPT !.isActive =
        \E i \in 1..Len(msg.array) : msg.array[i] = elevator_ref_num]

dispatch(s, msg) ==
    CASE msg.topic = "target_floor" -> target_floor_cb(s, msg)
      [] msg.topic = "est_floor" -> est_floor_cb(s, msg)
      [] msg.topic = "door" -> open_close_cb(s, msg)
      [] msg.topic = "active" -> active_elevs_cb(s, msg)

\* OnUpdate, first statement: ros::spinOnce() calls the handler of every
\* message that waits in the callback queue, one after the other, and
\* returns when the queue is empty.  The queue holds what arrived since the
\* previous spinOnce: at most MaxPending messages.
\* mutant: handlers also run after activateDoors, within the tick
handleMessage_withinTick(msg) ==
    /\ pc \in {"spin", "constrain"}
    /\ handled < MaxPending
    /\ LET s == dispatch(ctrlRec, msg)
       IN /\ targetFloor' = s.targetFloor
          /\ estCurrFloor' = s.estCurrFloor
          /\ doorState' = s.doorState
          /\ isActive' = s.isActive
    /\ handled' = handled + 1
    /\ UNCHANGED <<pc, derived, world, velCalls>>

handleMessage(msg) ==
    /\ pc = "spin"
    /\ handled < MaxPending
    /\ LET s == dispatch(ctrlRec, msg)
       IN /\ targetFloor' = s.targetFloor
          /\ estCurrFloor' = s.estCurrFloor
          /\ doorState' = s.doorState
          /\ isActive' = s.isActive
    /\ handled' = handled + 1
    /\ UNCHANGED <<pc, derived, world, velCalls>>

spinOnceCallback == \E msg \in Messages : handleMessage(msg)

spinOnceReturn ==
    /\ pc = "spin"
    /\ handled' = 0
    /\ velCalls' = <<>>
    /\ pc' = "activate"
    /\ UNCHANGED <<ctrl, derived, world>>

----------------------------------------------------------------------------
\* activateDoors

doorElevHeightDiff == Abs(elevZ - doorPose.z)

\* mutant: the tolerance itself counts as too far
primaryCondition_atTolerance ==
    doorElevHeightDiff >= HEIGHT_LEVEL_TOLERANCE \/ estCurrFloor # targetFloor

primaryCondition ==
    doorElevHeightDiff > HEIGHT_LEVEL_TOLERANCE \/ estCurrFloor # targetFloor

\* mutant: the floors are not compared
doorSlideVelArg_noFloorTest ==
    IF doorElevHeightDiff > HEIGHT_LEVEL_TOLERANCE THEN closeVel
    ELSE IF doorState = ELEV_DOOR_STATE_OPEN THEN openVel
    ELSE IF doorState = ELEV_DOOR_STATE_CLOSE THEN closeVel
    ELSE openVel

\* mutant: the override is tested before the primary condition
doorSlideVelArg_overrideFirst ==
    IF doorState = ELEV_DOOR_STATE_OPEN THEN openVel
    ELSE IF doorState = ELEV_DOOR_STATE_CLOSE THEN closeVel
    ELSE IF primaryCondition THEN closeVel
    ELSE openVel

\* mutant: the two overrides command each other's velocity
doorSlideVelArg_swappedOverride ==
    IF primaryCondition THEN closeVel
    ELSE IF doorState = ELEV_DOOR_STATE_OPEN THEN closeVel
    ELSE IF doorState = ELEV_DOOR_STATE_CLOSE THEN openVel
    ELSE openVel

\* The velocity activateDoors passes to setDoorSlideVel once it is past the
\* isActive test and has read the two heights.
doorSlideVelArg ==
    IF primaryCondition THEN closeVel
    ELSE IF doorState = ELEV_DOOR_STATE_OPEN THEN openVel
    ELSE IF doorState = ELEV_DOOR_STATE_CLOSE THEN closeVel
    ELSE openVel

\* mutant: only the x velocity is set
setDoorSlideVel_xOnly(vel) == <<vel, 0, 0>>

setDoorSlideVel(vel) == <<vel, vel, 0>>

\* mutant: isActive is not tested
activateOutcome_noActiveTest(active) ==
    IF ~elevatorModel THEN [calls |-> <<>>, crashed |-> TRUE]
    ELSE [calls |-> <<doorSlideVelArg>>, crashed |-> ~doorLink]

\* mutant: the test of isActive is inverted
activateOutcome_invertedTest(active) ==
    IF active THEN [calls |-> <<>>, crashed |-> FALSE]
    ELSE IF ~elevatorModel THEN [calls |-> <<>>, crashed |-> TRUE]
    ELSE [calls |-> <<doorSlideVelArg>>, crashed |-> ~doorLink]

\* What activateDoors does when isActive has the value active: the calls of
\* setDoorSlideVel it makes, and whether it dereferences a null pointer.
activateOutcome(active) ==
    IF ~active THEN [calls |-> <<>>, crashed |-> FALSE]
    ELSE IF ~elevatorModel THEN [calls |-> <<>>, crashed |-> TRUE]
    ELSE [calls |-> <<doorSlideVelArg>>, crashed |-> ~doorLink]

activateDoors ==
    /\ pc = "activate"
    /\ LET out == activateOutcome(isActive)
       IN /\ velCalls' = out.calls
          /\ pc' = IF out.crashed THEN "crashed" ELSE "constrain"
          /\ doorVel' = IF out.calls # <<>> /\ ~out.crashed
                        THEN setDoorSlideVel(out.calls[1])
                        ELSE doorVel
    /\ UNCHANGED <<ctrl, derived, doorPose, elevZ, handled>>

----------------------------------------------------------------------------
\* checkSlideConstraints

\* mutant: the minimum is not enforced
clampAxis_noLower(cur, lo, hi) == IF cur > hi THEN hi ELSE cur

\* mutant: a position beyond the maximum is set to the minimum
clampAxis_wrongEnd(cur, lo, hi) ==
    IF cur > hi THEN lo ELSE IF cur < lo THEN lo ELSE cur

clampAxis(cur, lo, hi) ==
    IF cur > hi THEN hi ELSE IF cur < lo THEN lo ELSE cur

\* constrainedPose is default-constructed (position 0, rotation the identity
\* quaternion w = 1), then assigned x, y, z and the rotation's x, y, z.
constrainedPose(pose) ==
    [x |-> clampAxis(pose.x, minPosX, maxPosX),
     y |-> clampAxis(pose.y, minPosY, maxPosY),
     z |-> pose.z,
     rot |-> [w |-> QOne, x |-> pose.rot.x, y |-> pose.rot.y, z |-> pose.rot.z]]

\* mutant: the tick does not enforce the envelope
checkSlideConstraints_notEnforced ==
    /\ pc = "constrain"
    /\ pc' = "physics"
    /\ UNCHANGED <<ctrl, derived, world, handled, velCalls>>

\* The first statement reads the pose through doorLink, which is null when
\* the model has no link "door".
checkSlideConstraints ==
    /\ pc = "constrain"
    /\ IF doorLink
       THEN /\ doorPose' = constrainedPose(doorPose)
            /\ pc' = "physics"
       ELSE /\ doorPose' = doorPose
            /\ pc' = "crashed"
    /\ UNCHANGED <<ctrl, derived, doorVel, elevZ, handled, velCalls>>

----------------------------------------------------------------------------
\* The physics update that follows the WorldUpdateBegin callbacks: the door
\* moves by its velocity and by whatever else acts on it (push), its
\* vertical velocity takes what gravity and contacts give it, the car moves.

physicsStep(disturbances) ==
    /\ pc = "physics"
    /\ \E d \in disturbances, h \in CarHeights :
        /\ doorPose' = [doorPose EXCEPT !.x = @ + doorVel[1] + d.dx,
                                        !.y = @ + doorVel[2] + d.dy]
        /\ doorVel' = <<doorVel[1], doorVel[2], d.vz>>
        /\ elevZ' = h
    /\ pc' = "spin"
    /\ UNCHANGED <<ctrl, derived, handled, velCalls>>

physicsUpdate == physicsStep(Disturbances)

Next ==
    \/ Load
    \/ spinOnceCallback
    \/ spinOnceReturn
    \/ activateDoors
    \/ checkSlideConstraints
    \/ physicsUpdate

Spec == Init /\ [][Next]_vars

\* The world iterations in which nothing but the door's own velocity moves
\* the door, under the world's update loop, which never stops: whenever a
\* step of the iteration (the return of the drain, activateDoors,
\* checkSlideConstraints, the physics update) can be taken, it is taken.
physicsUndisturbed == physicsStep({[dx |-> 0, dy |-> 0, vz |-> 0]})

NextUndisturbed ==
    \/ Load
    \/ spinOnceCallback
    \/ spinOnceReturn
    \/ activateDoors
    \/ checkSlideConstraints
    \/ physicsUndisturbed

WorldIteration ==
    \/ spinOnceReturn
    \/ activateDoors
    \/ checkSlideConstraints
    \/ physicsUndisturbed

SpecFairTicks ==
    Init /\ [][NextUndisturbed]_vars /\ WF_vars(WorldIteration)

\* The runs in which no message arrives: every drain finds the queue empty.
NextNoMessages ==
    \/ Load
    \/ spinOnceReturn
    \/ activateDoors
    \/ checkSlideConstraints
    \/ physicsUpdate

SpecNoMessages == Init /\ [][NextNoMessages]_vars

----------------------------------------------------------------------------
\* Vocabulary of the properties

\* the car is within the tolerance of the door's height
Aligned == Abs(elevZ - doorPose.z) <= HEIGHT_LEVEL_TOLERANCE

\* activateDoors has just run (and returned, or failed) in this tick: the
\* heights and the controller fields are those it read
Activated == pc \in {"constrain", "crashed"}

InEnvelope(pose) ==
    /\ minPosX <= pose.x /\ pose.x <= maxPosX
    /\ minPosY <= pose.y /\ pose.y <= maxPosY

----------------------------------------------------------------------------
\* C1: a tick commands openVel only if the car is within the tolerance of
\* the door's height and estCurrFloor = targetFloor, whatever doorState and
\* isActive are.
C1_OpenOnlyWhenLevelAndSameFloor ==
    Activated =>
        \A i \in 1..Len(velCalls) :
            velCalls[i] = openVel => Aligned /\ estCurrFloor = targetFloor

C1_Witness ==
    /\ pc = "constrain"
    /\ velCalls = <<openVel>>
    /\ doorState = ELEV_DOOR_STATE_OPEN

\* C2, as claimed: every tick calls the velocity setter exactly once, with
\* openVel or closeVel.
C2_Original ==
    pc = "constrain" =>
        Len(velCalls) = 1 /\ velCalls[1] \in {openVel, closeVel}

\* C2, amended: a tick with isActive false calls the velocity setter not at
\* all (and fails only later, in checkSlideConstraints, when the model has
\* no door link); a tick with isActive true calls it exactly once, with openVel or
\* closeVel, when the elevator model was found, and fails before any call
\* when it was not.
C2_OneCallWhenActive ==
    Activated =>
        IF ~isActive THEN velCalls = <<>> /\ (pc = "crashed" => ~doorLink)
        ELSE IF elevatorModel
             THEN Len(velCalls) = 1 /\ velCalls[1] \in {openVel, closeVel}
             ELSE velCalls = <<>> /\ pc = "crashed"

C2_Witness ==
    /\ pc = "constrain"
    /\ isActive
    /\ velCalls = <<closeVel>>

\* C3, as claimed: when the car is beyond the tolerance or the floors
\* differ, the tick commands closeVel, whatever the other fields are.
C3_Original ==
    (pc = "constrain" /\ (~Aligned \/ estCurrFloor # targetFloor))
        => velCalls = <<closeVel>>

\* C3, amended: when isActive is true, the elevator model was found, and
\* the car is beyond the tolerance or the floors differ, the tick commands
\* closeVel, whatever doorState is.
C3_PrimaryConditionCloses ==
    (Activated /\ isActive /\ elevatorModel
     /\ (~Aligned \/ estCurrFloor # targetFloor))
        => velCalls = <<closeVel>>

C3_Witness ==
    /\ pc = "constrain"
    /\ isActive
    /\ Aligned
    /\ estCurrFloor # targetFloor
    /\ doorState = ELEV_DOOR_STATE_OPEN
    /\ velCalls = <<closeVel>>

\* C4, as claimed: with doorState FREE, equal floors and the car within the
\* tolerance, the tick commands openVel.
C4_Original ==
    (pc = "constrain" /\ doorState = ELEV_DOOR_STATE_FREE
     /\ estCurrFloor = targetFloor /\ Aligned)
        => velCalls = <<openVel>>

\* C4, amended: with isActive true, the elevator model found, doorState
\* FREE, equal floors and the car within the tolerance, the tick commands
\* openVel.
C4_FreeOpens ==
    (Activated /\ isActive /\ elevatorModel
     /\ doorState = ELEV_DOOR_STATE_FREE
     /\ estCurrFloor = targetFloor /\ Aligned)
        => velCalls = <<openVel>>

\* the car exactly at the tolerance
C4_Witness ==
    /\ pc = "constrain"
    /\ isActive
    /\ doorState = ELEV_DOOR_STATE_FREE
    /\ estCurrFloor = targetFloor
    /\ Abs(elevZ - doorPose.z) = HEIGHT_LEVEL_TOLERANCE
    /\ velCalls = <<openVel>>

\* C5, as claimed: with equal floors and the car within the tolerance,
\* doorState OPEN (1) makes the tick command openVel and doorState CLOSE (0)
\* makes it command closeVel.
C5_Original ==
    (pc = "constrain" /\ estCurrFloor = targetFloor /\ Aligned)
        => /\ doorState = 1 => velCalls = <<openVel>>
           /\ doorState = 0 => velCalls = <<closeVel>>

\* C5, amended: with isActive true, the elevator model found, equal floors
\* and the car within the tolerance, doorState OPEN (1) makes the tick
\* command openVel and doorState CLOSE (0) makes it command closeVel.
C5_OverridesHonoured ==
    (Activated /\ isActive /\ elevatorModel
     /\ estCurrFloor = targetFloor /\ Aligned)
        => /\ doorState = 1 => velCalls = <<openVel>>
           /\ doorState = 0 => velCalls = <<closeVel>>

C5_Witness ==
    /\ pc = "constrain"
    /\ isActive
    /\ estCurrFloor = targetFloor
    /\ Aligned
    /\ doorState = 0
    /\ velCalls = <<closeVel>>

\* C6, as claimed: two states that differ only in isActive make
\* activateDoors do the same (the same calls of the velocity setter).
C6_Original ==
    (pc = "activate" /\ elevatorModel /\ doorLink)
        => activateOutcome(TRUE) = activateOutcome(FALSE)

\* C6, amended: activateDoors does consult isActive: of two states that
\* differ only in isActive, the one with isActive false calls no velocity
\* setter and does not fail, and, the elevator model being found, the one
\* with isActive true calls it once.
C6_IsActiveGates ==
    pc = "activate" =>
        /\ activateOutcome(FALSE) = [calls |-> <<>>, crashed |-> FALSE]
        /\ elevatorModel => Len(activateOutcome(TRUE).calls) = 1

\* an inactive state whose active twin would open the door
C6_Witness ==
    /\ pc = "activate"
    /\ ~isActive
    /\ elevatorModel
    /\ doorLink
    /\ activateOutcome(TRUE).calls = <<openVel>>

C8_ClampsEachAxis ==
    [][checkSlideConstraints =>
        /\ doorPose.x > maxPosX => doorPose'.x = maxPosX
        /\ doorPose.x < minPosX => doorPose'.x = minPosX
        /\ (minPosX <= doorPose.x /\ doorPose.x <= maxPosX)
              => doorPose'.x = doorPose.x
        /\ doorPose.y > maxPosY => doorPose'.y = maxPosY
        /\ doorPose.y < minPosY => doorPose'.y = minPosY
        /\ (minPosY <= doorPose.y /\ doorPose.y <= maxPosY)
              => doorPose'.y = doorPose.y
        /\ InEnvelope(doorPose')]_vars

\* before the clamp: x beyond the maximum by more than the envelope is wide,
\* y inside
C8_Witness ==
    /\ pc = "constrain"
    /\ doorPose.x > maxPosX + max_trans_dist
    /\ minPosY <= doorPose.y
    /\ doorPose.y <= maxPosY

\* C9, as claimed: checkSlideConstraints writes the height and the rotation
\* (every component of it) that it read.
C9_Original ==
    [][checkSlideConstraints =>
        /\ doorPose'.z = doorPose.z
        /\ doorPose'.rot = doorPose.rot]_vars

\* C10, as claimed: activateDoors leaves the door's vertical velocity, its
\* pose, the controller fields and the derived constants unchanged.
C10_Original ==
    [][activateDoors =>
        /\ doorVel'[3] = doorVel[3]
        /\ UNCHANGED <<doorPose, ctrl, derived>>]_vars

\* C10, amended: activateDoors changes nothing but the door's linear
\* velocity, and that either not at all or to (v, v, 0) with v openVel or
\* closeVel: the vertical velocity is set to zero, not left as it was.
C10_WritesOnlyVelocity ==
    [][activateDoors =>
        /\ UNCHANGED <<doorPose, elevZ, ctrl, derived>>
        /\ \/ doorVel' = doorVel
           \/ \E v \in {openVel, closeVel} : doorVel' = <<v, v, 0>>]_vars

\* activateDoors about to command a velocity while the door moves vertically
C10_Witness ==
    /\ pc = "activate"
    /\ isActive
    /\ elevatorModel
    /\ doorLink
    /\ doorVel[3] # 0

\* C11, as claimed: in a tick the physics integrates the commanded velocity
\* after activateDoors and before checkSlideConstraints, and nothing
\* integrates between the write of checkSlideConstraints and the end of the
\* tick (the next drain).
C11_Original ==
    [][/\ (activateDoors /\ pc' # "crashed") => pc' = "physics"
       /\ (checkSlideConstraints /\ pc' # "crashed") => pc' = "spin"]_vars

\* C11, amended: OnUpdate runs at the beginning of a world update, so the
\* order of a world iteration is drain, activateDoors,
\* checkSlideConstraints, physics: checkSlideConstraints directly follows
\* activateDoors and (unless the tick fails) leaves the door inside the
\* envelope, and the physics
\* integrates the velocity commanded in this tick from that clamped pose,
\* after which the next drain starts.
C11_EnforcerBeforePhysics ==
    [][/\ spinOnceReturn => pc' = "activate"
       /\ (activateDoors /\ pc' # "crashed") => pc' = "constrain"
       /\ (checkSlideConstraints /\ pc' # "crashed") =>
            (pc' = "physics" /\ InEnvelope(doorPose'))
       /\ physicsUpdate => (InEnvelope(doorPose) /\ pc' = "spin")]_vars

\* a world iteration that commanded a velocity has ended with the door
\* outside the envelope: the physics moved it after checkSlideConstraints
C11_Witness ==
    /\ pc = "spin"
    /\ handled = 0
    /\ velCalls # <<>>
    /\ ~InEnvelope(doorPose)

\* C12: Load sets the envelope to exactly [P - D, P] on X and on Y for a
\* RIGHT door and to [P, P + D] for a LEFT door (P the spawn position on the
\* axis, D the maximum travel), so the minimum is at most the maximum, and
\* sets openVel = -speed, closeVel = +speed for RIGHT and the reverse for
\* LEFT; after Load no tick and no handler changes any of these values.
C12_EnvelopeAndVelocitiesFixedAtLoad ==
    [][/\ (pc = "constructed" /\ pc' = "spin") =>
            /\ direction' \in {"LEFT", "RIGHT"}
            /\ minPosX' <= maxPosX'
            /\ minPosY' <= maxPosY'
            /\ direction' = "RIGHT" =>
                  /\ minPosX' = doorPose.x - max_trans_dist'
                  /\ maxPosX' = doorPose.x
                  /\ minPosY' = doorPose.y - max_trans_dist'
                  /\ maxPosY' = doorPose.y
                  /\ openVel' = -slide_speed'
                  /\ closeVel' = slide_speed'
            /\ direction' = "LEFT" =>
                  /\ minPosX' = doorPose.x
                  /\ maxPosX' = doorPose.x + max_trans_dist'
                  /\ minPosY' = doorPose.y
                  /\ maxPosY' = doorPose.y + max_trans_dist'
                  /\ openVel' = slide_speed'
                  /\ closeVel' = -slide_speed'
       /\ pc # "constructed" =>
            UNCHANGED <<direction, slide_speed, max_trans_dist, openVel,
                        closeVel, minPosX, maxPosX, minPosY, maxPosY>>]_vars

\* a LEFT door that has travelled to the open end of its envelope, the
\* maximum, which is still the full travel away from the minimum
C12_Witness ==
    /\ pc = "physics"
    /\ direction = "LEFT"
    /\ doorPose.x = maxPosX
    /\ doorPose.y = maxPosY
    /\ maxPosX = minPosX + max_trans_dist
    /\ velCalls # <<>>

\* C13: when active_elevs_cb has handled a received array, isActive is true
\* if and only if elevator_ref_num is an element of the array, whatever
\* isActive was before: an array with the number sets it, a later array
\* without the number resets it.  (A step of the drain that counts one more
\* handled message is a handler call, of every message whose handler gives
\* the fields the step has left.)
C13_ActiveIffMember ==
    [][handled' = handled + 1 =>
        LET before == ctrlRec
            after == ctrlRec'
        IN \A msg \in Messages :
            (msg.topic = "active" /\ after = dispatch(before, msg)) =>
                after.isActive = (elevator_ref_num \in
                                    {msg.array[i] : i \in 1..Len(msg.array)})]_vars

\* isActive is true after a handler call, and it was false in the previous
\* tick, which commanded nothing before the physics moved the door
C13_Witness ==
    /\ pc = "spin"
    /\ handled > 0
    /\ isActive
    /\ elevatorModel
    /\ velCalls = <<>>
    /\ doorVel[3] # 0

\* C14, as claimed: once Load has completed, no tick reaches an error state,
\* whatever the accepted configuration and the messages.
C14_Original == pc # "crashed"

\* C15: when the elevator_domain_space parameter or the elevator_name
\* element is missing, Load exits before establishLinks has run (no member
\* of the plugin is assigned, nothing is registered) and afterwards no tick
\* and no handler runs; when both are present, a missing door_direction,
\* max_trans_dist or speed does not end the setup: Load goes on with LEFT,
\* DEFAULT_SLIDE_DISTANCE or DEFAULT_SLIDE_SPEED.
C15_RequiredFatalOptionalDefaulted ==
    /\ pc = "exited" =>
         /\ ~ENABLED Next
         /\ handled = 0
         /\ velCalls = <<>>
         /\ doorVel = <<0, 0, 0>>
         /\ ~doorLink
    /\ pc = "constructed" =>
         \A sdf \in SdfConfigs, hasParam \in BOOLEAN,
            namePrefixed \in BOOLEAN, hasDoorLink \in BOOLEAN,
            hasElevModel \in BOOLEAN :
             LET r == loadResult(sdf, hasParam, namePrefixed, hasDoorLink,
                                 hasElevModel)
             IN /\ (~hasParam \/ ~sdf.has_elevator_name) =>
                      r = [loadRec EXCEPT !.pc = "exited"]
                /\ (hasParam /\ sdf.has_elevator_name) =>
                      /\ r.pc # "exited"
                      /\ namePrefixed => r.pc = "spin"
                      /\ sdf.door_direction = "none" => r.direction = "LEFT"
                      /\ ~sdf.has_max_trans_dist =>
                            r.max_trans_dist = DEFAULT_SLIDE_DISTANCE
                      /\ ~sdf.has_speed =>
                            r.slide_speed = DEFAULT_SLIDE_SPEED

\* Load has exited
C15_Witness == pc = "exited"

MessageValue(msg) ==
    IF msg.topic = "active"
    THEN elevator_ref_num \in {msg.array[i] : i \in 1..Len(msg.array)}
    ELSE msg.data

\* the field of a controller state that the topic's handler is for
OwnField(s, topic) ==
    CASE topic = "target_floor" -> s.targetFloor
      [] topic = "est_floor" -> s.estCurrFloor
      [] topic = "door" -> s.doorState
      [] topic = "active" -> s.isActive

\* s with the topic's own field set to v
WithOwnField(s, topic, v) ==
    CASE topic = "target_floor" -> [s EXCEPT !.targetFloor = v]
      [] topic = "est_floor" -> [s EXCEPT !.estCurrFloor = v]
      [] topic = "door" -> [s EXCEPT !.doorState = v]
      [] topic = "active" -> [s EXCEPT !.isActive = v]

\* C17: whenever a handler has handled a message, handling the same message
\* again would change nothing; the handler's own field has the value that
\* the message carries, whatever the controller state was, so it depends
\* on the last message of the channel alone; the other three fields, the
\* derived constants and the door body are as they were before the call.
C17_ReplaceOwnFieldOnly ==
    [][handled' = handled + 1 =>
        /\ UNCHANGED <<derived, world>>
        /\ LET before == ctrlRec
               after == ctrlRec'
           IN \A msg \in Messages :
                after = dispatch(before, msg) =>
                    /\ dispatch(after, msg) = after
                    /\ OwnField(after, msg.topic) = MessageValue(msg)
                    /\ after = WithOwnField(before, msg.topic,
                                            MessageValue(msg))]_vars

\* a handler has run after a tick that commanded a velocity
C17_Witness ==
    /\ pc = "spin"
    /\ handled > 0
    /\ velCalls # <<>>
    /\ doorVel[1] # 0

\* the setup has completed and no tick has failed
Running == pc \in {"spin", "activate", "constrain", "physics"}

\* the door is at the closed end of its envelope, where it was spawned
AtClosedEnd ==
    IF direction = "RIGHT"
    THEN doorPose.x = maxPosX /\ doorPose.y = maxPosY
    ELSE doorPose.x = minPosX /\ doorPose.y = minPosY

\* C18, as claimed: if from some point on the car stays misaligned or the
\* floors stay different, then, the ticks going on, from some tick on every
\* tick leaves the door at the closed end, whatever doorState and isActive
\* are.
C18_Original ==
    <>[](Running /\ primaryCondition)
        => <>[](pc = "physics" => AtClosedEnd)

\* C18, amended: if from some point on isActive stays true and the car stays
\* misaligned or the floors stay different, and nothing but its commanded
\* velocity moves the door, then, the ticks going on, from some tick on
\* every tick leaves the door at the closed end.
C18_ClosesWhileActive ==
    <>[](Running /\ isActive /\ primaryCondition)
        => <>[](pc = "physics" => AtClosedEnd)

\* an active tick has commanded the closing of a door that is not at the
\* closed end
C18_Witness ==
    /\ pc = "physics"
    /\ isActive
    /\ primaryCondition
    /\ velCalls = <<closeVel>>
    /\ ~AtClosedEnd

\* C19, as claimed: in the ticks that run before any message has arrived,
\* activateDoors never commands openVel, whatever the constructor left in
\* targetFloor, estCurrFloor, doorState and isActive.
C19_Original == pc = "constrain" => velCalls # <<openVel>>

\* doorState is none of CLOSE, OPEN, FREE
UnknownCommand ==
    doorState \notin {ELEV_DOOR_STATE_CLOSE, ELEV_DOOR_STATE_OPEN,
                      ELEV_DOOR_STATE_FREE}

\* C20, as claimed: with a doorState that is none of CLOSE, OPEN, FREE a
\* tick commands openVel when the car is aligned and the floors are equal,
\* closeVel otherwise.
C20_Original ==
    (pc = "constrain" /\ UnknownCommand) =>
        velCalls = <<IF Aligned /\ estCurrFloor = targetFloor
                     THEN openVel ELSE closeVel>>

\* C20, amended: open_close_cb stores a value that is none of CLOSE, OPEN,
\* FREE as it is, replacing the previous command, and the call fails
\* nothing; a later tick with that doorState, with isActive true and the
\* elevator model found, commands openVel when the car is aligned and the
\* floors are equal and closeVel otherwise, as it does for FREE; with
\* isActive false it commands nothing; it fails only for a missing
\* elevator model or door link, never for the value.
C20_UnknownCommandLikeFree ==
    [][/\ handled' = handled + 1 =>
            \A msg \in Messages :
                (/\ msg.topic = "door"
                 /\ msg.data \notin {ELEV_DOOR_STATE_CLOSE,
                                     ELEV_DOOR_STATE_OPEN,
                                     ELEV_DOOR_STATE_FREE}
                 /\ ctrlRec' = dispatch(ctrlRec, msg)) =>
                    (doorState' = msg.data /\ pc' = "spin")
       /\ (activateDoors /\ UnknownCommand) =>
            /\ (isActive /\ elevatorModel) =>
                  velCalls' = <<IF Aligned /\ estCurrFloor = targetFloor
                                THEN openVel ELSE closeVel>>
            /\ ~isActive => (velCalls' = <<>> /\ doorVel' = doorVel)
            /\ pc' = "crashed" => (isActive /\ (~elevatorModel \/ ~doorLink))]_vars

\* an active tick has commanded openVel with a doorState of 3
C20_Witness ==
    /\ pc = "constrain"
    /\ doorState = 3
    /\ isActive
    /\ doorLink
    /\ velCalls = <<openVel>>

====
